---- MODULE Spec2Model ----
(***************************************************************************)
(* TeleBuddy backend: the request handlers of main.py, the record          *)
(* definitions of schemas.py they construct, and the persistence gateway   *)
(* (database.db, create_document, get_documents) they call.                *)
(*                                                                         *)
(* Python values are modelled as follows.  Optional[T] is a sequence of    *)
(* length 0 (None) or 1.  A str or int field is a TLA+ string or integer;  *)
(* a float field holds an integer.  The dynamically typed _id / id value   *)
(* is a pair [type, value], type "ObjectId" or "str".  A mapping is a      *)
(* record; the empty mapping is the function with empty domain.            *)
(***************************************************************************)
EXTENDS Integers, Sequences, FiniteSets, TLC

VARIABLES
  env,       \* the process environment: DATABASE_URL, DATABASE_NAME
  db,        \* database.db, the process-wide connection handle
  store,     \* the document store: collection name -> documents in insertion order
  next_oid,  \* the store's identifier generator
  request,   \* per request slot: the handler's position, locals and response
  created    \* history: the successful create responses clients have received

vars == <<env, db, store, next_oid, request, created>>

\* ---------------------------------------------------------------- bounds
\* documents the store accepts before further creates are not issued
MaxDocs == 2
\* requests in flight together in ConcSpec
NumRequests == 3

\* ------------------------------------------------------- program constants
DEMO_TELEGRAM_MESSAGE_ID == 123456
LIST_MEDIA_DEFAULT_LIMIT == 50
LIST_CONVERSATIONS_DEFAULT_LIMIT == 50
LIST_MESSAGES_DEFAULT_LIMIT == 100
LIST_BOTS_DEFAULT_LIMIT == 20
TEST_COLLECTIONS_SHOWN == 10

\* ------------------------------------------------------------ Python values
None == <<>>
Some(x) == <<x>>

Min(a, b) == IF a <= b THEN a ELSE b

HexDigit(n) ==
  CASE n = 0 -> "0" [] n = 1 -> "1" [] n = 2 -> "2" [] n = 3 -> "3"
    [] n = 4 -> "4" [] n = 5 -> "5" [] n = 6 -> "6" [] n = 7 -> "7"
    [] n = 8 -> "8" [] n = 9 -> "9" [] n = 10 -> "a" [] n = 11 -> "b"
    [] n = 12 -> "c" [] n = 13 -> "d" [] n = 14 -> "e" [] n = 15 -> "f"

RECURSIVE Hex(_)
Hex(n) == IF n < 16 THEN HexDigit(n) ELSE Hex(n \div 16) \o HexDigit(n % 16)

\* the store's identifier type, and its 24 hex digit display form
ObjectId(n) == [type |-> "ObjectId", value |-> n]
ObjectIdHex(n) ==
  SubSeq("000000000000000000000000", 1, 24 - Len(Hex(n))) \o Hex(n)

\* str(x): the display string of an identifier; a str is returned as it is
str(x) ==
  IF x.type = "ObjectId" THEN [type |-> "str", value |-> ObjectIdHex(x.value)]
  ELSE x

\* ------------------------------------------------------ record definitions
MediaTypes == {"photo", "video", "document"}

\* each constructor returns [ok, value]; ok = FALSE is pydantic's ValidationError
Invalid == [ok |-> FALSE, value |-> None]
Valid(v) == [ok |-> TRUE, value |-> v]

MediaItem(p) ==
  IF /\ p.type \in MediaTypes
     /\ (p.price = None \/ p.price[1] >= 0)
  THEN Valid([bot_id |-> p.bot_id, type |-> p.type, caption |-> p.caption,
              price |-> p.price, external_url |-> p.external_url,
              telegram_file_id |-> None, tags |-> <<>>, thumbnail_url |-> None])
  ELSE Invalid

Conversation(p) ==
  Valid([bot_id |-> p.bot_id, fan_id |-> p.fan_id,
         last_message_preview |-> p.last_message_preview,
         last_message_at |-> None, unread |-> 0])

Message(conversation_id, direction, text, media_item_id, paid, price, telegram_message_id) ==
  IF direction \in {"inbound", "outbound"}
  THEN Valid([conversation_id |-> conversation_id, direction |-> direction,
              text |-> text, media_item_id |-> media_item_id, price |-> price,
              paid |-> paid, telegram_message_id |-> telegram_message_id,
              telegram_file_id |-> None])
  ELSE Invalid

Bot(name, username) ==
  Valid([name |-> name, username |-> username, token |-> None, team_id |-> None,
         welcome_message |-> None, is_active |-> TRUE])

\* ----------------------------------------------------------- request bodies
\* a body field the model leaves out of the JSON is None; a required str
\* field that is absent fails the request model (RequestValidationError)
CreateMediaRequest(body) ==
  IF body.bot_id = None \/ body.type = None THEN Invalid
  ELSE Valid([bot_id |-> body.bot_id[1], type |-> body.type[1],
              caption |-> body.caption, price |-> body.price,
              external_url |-> body.external_url])

CreateConversationRequest(body) ==
  IF body.bot_id = None \/ body.fan_id = None THEN Invalid
  ELSE Valid([bot_id |-> body.bot_id[1], fan_id |-> body.fan_id[1],
              last_message_preview |-> body.last_message_preview])

SendMessageRequest(body) ==
  IF body.conversation_id = None THEN Invalid
  ELSE Valid([conversation_id |-> body.conversation_id[1], text |-> body.text,
              media_item_id |-> body.media_item_id, paid |-> body.paid,
              price |-> body.price])

CreateBotRequest(body) ==
  IF body.name = None THEN Invalid
  ELSE Valid([name |-> body.name[1], username |-> body.username])

\* ------------------------------------------------------ persistence gateway
Collections == {"mediaitem", "conversation", "message", "bot"}
CollectionOrder == <<"mediaitem", "conversation", "message", "bot">>

\* the connection handle made at import from the two configuration values
Connect(e) ==
  IF e.DATABASE_URL # None /\ e.DATABASE_NAME # None THEN Some(e.DATABASE_NAME[1])
  ELSE None

Matches(doc, filter_dict) == \A k \in DOMAIN filter_dict : doc[k] = filter_dict[k]

Take(s, n) == SubSeq(s, 1, Min(n, Len(s)))

\* result of a call: exc = "" when it returned, else the exception raised
Raise(kind, st, oid) == [exc |-> kind, ret |-> None, store |-> st, next_oid |-> oid]

create_document(st, oid, dbh, fault, collection_name, data) ==
  IF dbh = None THEN Raise("StorageUnavailable", st, oid)
  ELSE IF fault THEN Raise("StorageError", st, oid)
  ELSE [exc |-> "",
        ret |-> str(ObjectId(oid)),
        store |-> [st EXCEPT ![collection_name] =
                     Append(@, [_id |-> ObjectId(oid)] @@ data)],
        next_oid |-> oid + 1]

get_documents(st, dbh, fault, collection_name, filter_dict, limit) ==
  IF dbh = None \/ fault THEN <<>>
  ELSE Take(SelectSeq(st[collection_name], LAMBDA d : Matches(d, filter_dict)), limit)

list_collection_names(st) == SelectSeq(CollectionOrder, LAMBDA c : Len(st[c]) > 0)

\* ----------------------------------------------------------------- handlers
\* Each handler is two parts: X_call runs it up to and including its one
\* store round trip and yields [exc, local, store, next_oid]; X_return
\* builds the returned value from the handler's locals.
Returned(local, st, oid) == [exc |-> "", local |-> local, store |-> st, next_oid |-> oid]
Raised(kind, st, oid) == [exc |-> kind, local |-> None, store |-> st, next_oid |-> oid]

Stored(r, local) ==
  IF r.exc # "" THEN Raised(r.exc, r.store, r.next_oid)
  ELSE Returned(local, r.store, r.next_oid)

StrIds(items) == [i \in DOMAIN items |-> [items[i] EXCEPT !["_id"] = str(@)]]

\* mutant: an empty result is answered with an error
list_media_call_404(q, st, oid, dbh, fault) ==
  LET filter_q == IF q.bot_id # None /\ q.bot_id[1] # "" THEN [bot_id |-> q.bot_id[1]]
                  ELSE <<>>
      items == get_documents(st, dbh, fault, "mediaitem", filter_q, q.limit)
  IN  IF items = <<>> THEN Raised("HTTPException", st, oid)
      ELSE Returned([items |-> items], st, oid)

list_media_call(q, st, oid, dbh, fault) ==
  LET filter_q == IF q.bot_id # None /\ q.bot_id[1] # "" THEN [bot_id |-> q.bot_id[1]]
                  ELSE <<>>
      items == get_documents(st, dbh, fault, "mediaitem", filter_q, q.limit)
  IN  Returned([items |-> items], st, oid)

list_media_return(local) == StrIds(local.items)

\* mutant: the gateway's exception is swallowed and an id answered all the same
create_media_call_swallow(body, st, oid, dbh, fault) ==
  LET payload == CreateMediaRequest(body) IN
  IF ~payload.ok THEN Raised("RequestValidationError", st, oid)
  ELSE LET doc == MediaItem(payload.value) IN
       IF ~doc.ok THEN Raised("ValidationError", st, oid)
       ELSE LET r == create_document(st, oid, dbh, fault, "mediaitem", doc.value)
            IN  Returned([inserted_id |-> r.ret], r.store, r.next_oid)

\* mutant: the request payload is stored in place of the record built from it
create_media_call_payload(body, st, oid, dbh, fault) ==
  LET payload == CreateMediaRequest(body) IN
  IF ~payload.ok THEN Raised("RequestValidationError", st, oid)
  ELSE LET doc == MediaItem(payload.value) IN
       IF ~doc.ok THEN Raised("ValidationError", st, oid)
       ELSE LET r == create_document(st, oid, dbh, fault, "mediaitem", payload.value)
            IN  Stored(r, [inserted_id |-> r.ret])

create_media_call(body, st, oid, dbh, fault) ==
  LET payload == CreateMediaRequest(body) IN
  IF ~payload.ok THEN Raised("RequestValidationError", st, oid)
  ELSE LET doc == MediaItem(payload.value) IN
       IF ~doc.ok THEN Raised("ValidationError", st, oid)
       ELSE LET r == create_document(st, oid, dbh, fault, "mediaitem", doc.value)
            IN  Stored(r, [inserted_id |-> r.ret])

\* mutant: the id answered is looked up as the newest document's
create_media_return_latest(local) ==
  [id |-> str(store["mediaitem"][Len(store["mediaitem"])]._id)]

create_media_return(local) == [id |-> local.inserted_id]

\* mutant: the bot_id filter is left out
list_conversations_call_unfiltered(q, st, oid, dbh, fault) ==
  LET items == get_documents(st, dbh, fault, "conversation", <<>>, q.limit)
  IN  Returned([items |-> items], st, oid)

list_conversations_call(q, st, oid, dbh, fault) ==
  LET items == get_documents(st, dbh, fault, "conversation", [bot_id |-> q.bot_id], q.limit)
  IN  Returned([items |-> items], st, oid)

list_conversations_return(local) == StrIds(local.items)

create_conversation_call(body, st, oid, dbh, fault) ==
  LET payload == CreateConversationRequest(body) IN
  IF ~payload.ok THEN Raised("RequestValidationError", st, oid)
  ELSE LET doc == Conversation(payload.value) IN
       IF ~doc.ok THEN Raised("ValidationError", st, oid)
       ELSE LET r == create_document(st, oid, dbh, fault, "conversation", doc.value)
            IN  Stored(r, [inserted_id |-> r.ret])

create_conversation_return(local) == [id |-> local.inserted_id]

list_messages_call(q, st, oid, dbh, fault) ==
  LET items == get_documents(st, dbh, fault, "message",
                             [conversation_id |-> q.conversation_id], q.limit)
  IN  Returned([items |-> items], st, oid)

list_messages_return(local) == StrIds(local.items)

\* mutant: the placeholder delivery id is not set
send_message_call_undelivered(body, st, oid, dbh, fault) ==
  LET payload == SendMessageRequest(body) IN
  IF ~payload.ok THEN Raised("RequestValidationError", st, oid)
  ELSE LET p == payload.value
           msg == Message(p.conversation_id, "outbound", p.text, p.media_item_id,
                          p.paid, p.price, None)
       IN  IF ~msg.ok THEN Raised("ValidationError", st, oid)
           ELSE LET r == create_document(st, oid, dbh, fault, "message", msg.value)
                IN  Stored(r, [inserted_id |-> r.ret, msg |-> msg.value])

\* mutant: sending also rewrites the conversation's last_message_preview
send_message_call_touch(body, st, oid, dbh, fault) ==
  LET payload == SendMessageRequest(body) IN
  IF ~payload.ok THEN Raised("RequestValidationError", st, oid)
  ELSE LET p == payload.value
           msg == Message(p.conversation_id, "outbound", p.text, p.media_item_id,
                          p.paid, p.price, Some(DEMO_TELEGRAM_MESSAGE_ID))
       IN  IF ~msg.ok THEN Raised("ValidationError", st, oid)
           ELSE LET r == create_document(st, oid, dbh, fault, "message", msg.value)
                    touched ==
                      [r.store EXCEPT !["conversation"] =
                         [i \in DOMAIN @ |->
                            IF str(@[i]._id).value = p.conversation_id
                            THEN [@[i] EXCEPT !.last_message_preview = p.text]
                            ELSE @[i]]]
                IN  IF r.exc # "" THEN Raised(r.exc, r.store, r.next_oid)
                    ELSE Returned([inserted_id |-> r.ret, msg |-> msg.value],
                                  touched, r.next_oid)

send_message_call(body, st, oid, dbh, fault) ==
  LET payload == SendMessageRequest(body) IN
  IF ~payload.ok THEN Raised("RequestValidationError", st, oid)
  ELSE LET p == payload.value
           msg == Message(p.conversation_id, "outbound", p.text, p.media_item_id,
                          p.paid, p.price, Some(DEMO_TELEGRAM_MESSAGE_ID))
       IN  IF ~msg.ok THEN Raised("ValidationError", st, oid)
           ELSE LET r == create_document(st, oid, dbh, fault, "message", msg.value)
                IN  Stored(r, [inserted_id |-> r.ret, msg |-> msg.value])

send_message_return(local) ==
  [id |-> local.inserted_id, telegram_message_id |-> local.msg.telegram_message_id]

list_bots_call(q, st, oid, dbh, fault) ==
  LET items == get_documents(st, dbh, fault, "bot", <<>>, q.limit)
  IN  Returned([items |-> items], st, oid)

\* mutant: the documents are returned with the store's own identifiers
list_bots_return_raw(local) == local.items

list_bots_return(local) == StrIds(local.items)

create_bot_call(body, st, oid, dbh, fault) ==
  LET payload == CreateBotRequest(body) IN
  IF ~payload.ok THEN Raised("RequestValidationError", st, oid)
  ELSE LET bot == Bot(payload.value.name, payload.value.username) IN
       IF ~bot.ok THEN Raised("ValidationError", st, oid)
       ELSE LET r == create_document(st, oid, dbh, fault, "bot", bot.value)
            IN  Stored(r, [inserted_id |-> r.ret])

create_bot_return(local) == [id |-> local.inserted_id]

test_database_call(e, st, oid, dbh, fault) ==
  LET response == [backend |-> "Running", database |-> "Not Available",
                   database_url |-> "Not Set", database_name |-> "Not Set",
                   connection_status |-> "Not Connected", collections |-> <<>>]
      seen == [response EXCEPT
                 !.database = "Available",
                 !.database_url = IF e.DATABASE_URL # None THEN "Set" ELSE "Not Set",
                 !.database_name = IF e.DATABASE_NAME # None THEN "Set" ELSE "Not Set"]
  IN  Returned(
        [response |->
           IF dbh = None THEN [response EXCEPT !.database = "Available but not initialized"]
           ELSE IF fault THEN [seen EXCEPT !.database = "Connected but Error"]
           ELSE [seen EXCEPT !.collections = Take(list_collection_names(st), TEST_COLLECTIONS_SHOWN),
                             !.database = "Connected & Working",
                             !.connection_status = "Connected"]],
        st, oid)

test_database_return(local) == local.response

\* ------------------------------------------------- the web framework's part
Creates == {"create_media", "create_conversation", "send_message", "create_bot"}
Lists == {"list_media", "list_conversations", "list_messages", "list_bots"}

CollectionOf(op) ==
  CASE op \in {"create_media", "list_media"} -> "mediaitem"
    [] op \in {"create_conversation", "list_conversations"} -> "conversation"
    [] op \in {"send_message", "list_messages"} -> "message"
    [] op \in {"create_bot", "list_bots"} -> "bot"

Call(op, req, e, st, oid, dbh, fault) ==
  CASE op = "list_media" -> list_media_call(req, st, oid, dbh, fault)
    [] op = "create_media" -> create_media_call(req, st, oid, dbh, fault)
    [] op = "list_conversations" -> list_conversations_call(req, st, oid, dbh, fault)
    [] op = "create_conversation" -> create_conversation_call(req, st, oid, dbh, fault)
    [] op = "list_messages" -> list_messages_call(req, st, oid, dbh, fault)
    [] op = "send_message" -> send_message_call(req, st, oid, dbh, fault)
    [] op = "list_bots" -> list_bots_call(req, st, oid, dbh, fault)
    [] op = "create_bot" -> create_bot_call(req, st, oid, dbh, fault)
    [] op = "test_database" -> test_database_call(e, st, oid, dbh, fault)

Return(op, local) ==
  CASE op = "list_media" -> list_media_return(local)
    [] op = "create_media" -> create_media_return(local)
    [] op = "list_conversations" -> list_conversations_return(local)
    [] op = "create_conversation" -> create_conversation_return(local)
    [] op = "list_messages" -> list_messages_return(local)
    [] op = "send_message" -> send_message_return(local)
    [] op = "list_bots" -> list_bots_return(local)
    [] op = "create_bot" -> create_bot_return(local)
    [] op = "test_database" -> test_database_return(local)

\* the HTTP response: 200 with the returned value, 422 when the request model
\* rejects the body, 500 for any other exception leaving the handler
Respond(exc, value) ==
  CASE exc = "" -> [status |-> 200, error |-> "", body |-> value]
    [] exc = "RequestValidationError" -> [status |-> 422, error |-> exc, body |-> None]
    [] OTHER -> [status |-> 500, error |-> exc, body |-> None]

\* fault records whether the store failed the request's round trip
Idle ==
  [pc |-> "idle", op |-> "", req |-> None, fault |-> FALSE, local |-> None, resp |-> None]
InHandler(op, req, fault, local) ==
  [pc |-> "called", op |-> op, req |-> req, fault |-> fault, local |-> local, resp |-> None]
Done(op, req, fault, resp) ==
  [pc |-> "done", op |-> op, req |-> req, fault |-> fault, local |-> None, resp |-> resp]

Receipt(r, op, req, resp) ==
  IF op \in Creates /\ resp.status = 200
  THEN {[r |-> r, op |-> op, req |-> req, id |-> resp.body.id]}
  ELSE {}

Requests == 1..NumRequests

\* ------------------------------------------------------------------ inputs
Envs == [DATABASE_URL : {None, Some("mongodb://db")}, DATABASE_NAME : {None, Some("telebuddy")}]

BotIds == {"bot1", "bot2"}
ConversationIds == {ObjectIdHex(1), ObjectIdHex(2)}

MediaBody(bot_id, type, caption, price, external_url) ==
  [bot_id |-> bot_id, type |-> type, caption |-> caption, price |-> price,
   external_url |-> external_url]

MediaBodies ==
  {MediaBody(Some("bot1"), Some("photo"), None, Some(5), None),
   MediaBody(Some("bot1"), Some("photo"), None, Some(0), None),
   MediaBody(Some("bot2"), Some("video"), Some("clip"), None, Some("http://x/v")),
   MediaBody(Some("bot1"), Some("audio"), None, Some(5), None),
   MediaBody(Some("bot1"), Some("photo"), None, Some(-1), None),
   MediaBody(None, Some("photo"), None, None, None)}

ConversationBodies ==
  {[bot_id |-> Some("bot1"), fan_id |-> Some("fan1"), last_message_preview |-> None],
   [bot_id |-> Some("bot1"), fan_id |-> None, last_message_preview |-> None]}

MessageBodies ==
  {[conversation_id |-> Some(c), text |-> Some("hi"), media_item_id |-> None,
    paid |-> FALSE, price |-> None] : c \in ConversationIds}
  \cup {[conversation_id |-> None, text |-> Some("hi"), media_item_id |-> None,
         paid |-> FALSE, price |-> None]}

BotBodies == {[name |-> Some("alpha"), username |-> None], [name |-> None, username |-> None]}

Limits(default) == {0, 1, default}

MediaQueries ==
  [bot_id : {None, Some("")} \cup {Some(b) : b \in BotIds}, limit : Limits(LIST_MEDIA_DEFAULT_LIMIT)]
ConversationQueries == [bot_id : BotIds, limit : Limits(LIST_CONVERSATIONS_DEFAULT_LIMIT)]
MessageQueries == [conversation_id : ConversationIds, limit : Limits(LIST_MESSAGES_DEFAULT_LIMIT)]
BotQueries == [limit : Limits(LIST_BOTS_DEFAULT_LIMIT)]

\* ----------------------------------------------------------- state machine
Init ==
  /\ env \in Envs
  /\ db = Connect(env)
  /\ store = [c \in Collections |-> <<>>]
  /\ next_oid = 1
  /\ request = [r \in Requests |-> Idle]
  /\ created = {}

\* one request served from receipt to response, with no other in between
Handle(r, op, req, fault) ==
  LET c == Call(op, req, env, store, next_oid, db, fault)
      resp == IF c.exc = "" THEN Respond("", Return(op, c.local)) ELSE Respond(c.exc, None)
  IN  /\ store' = c.store
      /\ next_oid' = c.next_oid
      /\ request' = [request EXCEPT ![r] = Done(op, req, fault, resp)]
      /\ created' = created \cup Receipt(r, op, req, resp)
      /\ UNCHANGED <<env, db>>

read_root ==
  /\ request' = [request EXCEPT ![1] =
                   Done("read_root", None, FALSE,
                        Respond("", [message |-> "TeleBuddy backend running"]))]
  /\ UNCHANGED <<env, db, store, next_oid, created>>

\* mutant: the diagnostics endpoint connects when it finds no connection
test_database_reconnect(fault) ==
  /\ fault \in BOOLEAN
  /\ db' = IF db = None THEN Some("telebuddy") ELSE db
  /\ request' = [request EXCEPT ![1] =
                   Done("test_database", None, fault,
                        Respond("", test_database_return(
                          test_database_call(env, store, next_oid, db, fault).local)))]
  /\ UNCHANGED <<env, store, next_oid, created>>

test_database(fault) ==
  /\ fault \in BOOLEAN
  /\ Handle(1, "test_database", None, fault)

list_media(q, fault) ==
  /\ q.limit >= 0
  /\ Handle(1, "list_media", q, fault)

create_media(body, fault) ==
  /\ next_oid <= MaxDocs
  /\ Handle(1, "create_media", body, fault)

list_conversations(q, fault) ==
  /\ q.limit >= 0
  /\ Handle(1, "list_conversations", q, fault)

create_conversation(body, fault) ==
  /\ next_oid <= MaxDocs
  /\ Handle(1, "create_conversation", body, fault)

list_messages(q, fault) ==
  /\ q.limit >= 0
  /\ Handle(1, "list_messages", q, fault)

send_message(body, fault) ==
  /\ next_oid <= MaxDocs
  /\ Handle(1, "send_message", body, fault)

list_bots(q, fault) ==
  /\ q.limit >= 0
  /\ Handle(1, "list_bots", q, fault)

create_bot(body, fault) ==
  /\ next_oid <= MaxDocs
  /\ Handle(1, "create_bot", body, fault)

Next ==
  \E fault \in BOOLEAN :
    \/ read_root
    \/ test_database(fault)
    \/ \E q \in MediaQueries : list_media(q, fault)
    \/ \E body \in MediaBodies : create_media(body, fault)
    \/ \E q \in ConversationQueries : list_conversations(q, fault)
    \/ \E body \in ConversationBodies : create_conversation(body, fault)
    \/ \E q \in MessageQueries : list_messages(q, fault)
    \/ \E body \in MessageBodies : send_message(body, fault)
    \/ \E q \in BotQueries : list_bots(q, fault)
    \/ \E body \in BotBodies : create_bot(body, fault)

Spec == Init /\ [][Next]_vars

\* ------------------------------------------------- requests served together
\* Handlers are plain functions, which the framework runs on worker threads:
\* requests overlap.  A request's only access to shared state is its store
\* round trip, so a request takes two steps: begin (receipt to the end of
\* the round trip) and return (the rest of the handler and the response).
Begin(r, op, req, fault) ==
  LET c == Call(op, req, env, store, next_oid, db, fault) IN
  /\ store' = c.store
  /\ next_oid' = c.next_oid
  /\ request' = [request EXCEPT ![r] =
                   IF c.exc = "" THEN InHandler(op, req, fault, c.local)
                   ELSE Done(op, req, fault, Respond(c.exc, None))]
  /\ UNCHANGED <<env, db, created>>

handler_return(r) ==
  LET h == request[r]
      resp == Respond("", Return(h.op, h.local))
  IN  /\ h.pc = "called"
      /\ request' = [request EXCEPT ![r] = Done(h.op, h.req, h.fault, resp)]
      /\ created' = created \cup Receipt(r, h.op, h.req, resp)
      /\ UNCHANGED <<env, db, store, next_oid>>

ConcMediaBodies == {MediaBody(Some("bot1"), Some("photo"), None, Some(5), None)}
ConcConversationBodies ==
  {[bot_id |-> Some("bot1"), fan_id |-> Some("fan1"), last_message_preview |-> None]}
ConcMessageBodies ==
  {[conversation_id |-> Some(ObjectIdHex(1)), text |-> Some("hi"), media_item_id |-> None,
    paid |-> FALSE, price |-> None]}
ConcMediaQueries == {[bot_id |-> Some("bot1"), limit |-> LIST_MEDIA_DEFAULT_LIMIT]}
ConcMessageQueries ==
  {[conversation_id |-> ObjectIdHex(1), limit |-> LIST_MESSAGES_DEFAULT_LIMIT]}

create_media_begin(r, body, fault) ==
  /\ request[r].pc = "idle"
  /\ next_oid <= MaxDocs
  /\ Begin(r, "create_media", body, fault)

create_conversation_begin(r, body, fault) ==
  /\ request[r].pc = "idle"
  /\ next_oid <= MaxDocs
  /\ Begin(r, "create_conversation", body, fault)

send_message_begin(r, body, fault) ==
  /\ request[r].pc = "idle"
  /\ next_oid <= MaxDocs
  /\ Begin(r, "send_message", body, fault)

list_media_begin(r, q, fault) ==
  /\ request[r].pc = "idle"
  /\ Begin(r, "list_media", q, fault)

list_messages_begin(r, q, fault) ==
  /\ request[r].pc = "idle"
  /\ Begin(r, "list_messages", q, fault)

ConcNext ==
  \E r \in Requests :
    \/ \E body \in ConcMediaBodies, fault \in BOOLEAN : create_media_begin(r, body, fault)
    \/ \E body \in ConcConversationBodies, fault \in BOOLEAN :
         create_conversation_begin(r, body, fault)
    \/ \E body \in ConcMessageBodies, fault \in BOOLEAN : send_message_begin(r, body, fault)
    \/ \E q \in ConcMediaQueries, fault \in BOOLEAN : list_media_begin(r, q, fault)
    \/ \E q \in ConcMessageQueries, fault \in BOOLEAN : list_messages_begin(r, q, fault)
    \/ handler_return(r)

ConcSpec == Init /\ [][ConcNext]_vars

\* ================================================================== claims
\* What the claims speak of, stated apart from the handlers.

\* the record a create request is to store: the request model, then the record
RecordOf(op, req) ==
  CASE op = "create_media" -> MediaItem(CreateMediaRequest(req).value)
    [] op = "create_conversation" -> Conversation(CreateConversationRequest(req).value)
    [] op = "send_message" ->
         LET p == SendMessageRequest(req).value
         IN  Message(p.conversation_id, "outbound", p.text, p.media_item_id, p.paid,
                     p.price, Some(DEMO_TELEGRAM_MESSAGE_ID))
    [] op = "create_bot" ->
         LET p == CreateBotRequest(req).value IN Bot(p.name, p.username)

RequestModelOk(op, req) ==
  CASE op = "create_media" -> CreateMediaRequest(req).ok
    [] op = "create_conversation" -> CreateConversationRequest(req).ok
    [] op = "send_message" -> SendMessageRequest(req).ok
    [] op = "create_bot" -> CreateBotRequest(req).ok

ValidPayload(op, req) == RequestModelOk(op, req) /\ RecordOf(op, req).ok

\* the exact-match filter of a list request; list_media takes an absent or
\* empty bot_id as no filter
QueryFilter(op, q) ==
  CASE op = "list_media" ->
         IF q.bot_id = None \/ q.bot_id = Some("") THEN <<>> ELSE [bot_id |-> q.bot_id[1]]
    [] op = "list_conversations" -> [bot_id |-> q.bot_id]
    [] op = "list_messages" -> [conversation_id |-> q.conversation_id]
    [] op = "list_bots" -> <<>>

AllMatching(op, q) ==
  SelectSeq(store[CollectionOf(op)], LAMBDA d : Matches(d, QueryFilter(op, q)))

\* a stored document as a caller is to see it, and its fields other than _id
Shown(d) == [d EXCEPT !["_id"] = [type |-> "str", value |-> ObjectIdHex(@.value)]]
Fields(d) == [k \in (DOMAIN d) \ {"_id"} |-> d[k]]

IsIdString(x) == x.type = "str" /\ Len(x.value) > 0

DoneOf(ops) == {r \in Requests : request[r].pc = "done" /\ request[r].op \in ops}
Succeeded(r) == request[r].resp.status = 200
StoreUp(r) == db # None /\ ~request[r].fault
StoreEmpty == \A c \in Collections : store[c] = <<>>

\* C1: with the connection unset, a create call with any valid payload fails
\* with StorageUnavailable and nothing else, and no collection holds a document.
C1_CreateUnavailable ==
  \A r \in DoneOf(Creates) :
    (db = None /\ ValidPayload(request[r].op, request[r].req)) =>
      /\ request[r].resp.status # 200
      /\ request[r].resp.error = "StorageUnavailable"
      /\ StoreEmpty

C1_Witness ==
  \E r \in DoneOf(Creates) :
    /\ db = None
    /\ request[r].fault
    /\ ValidPayload(request[r].op, request[r].req)
    /\ request[r].resp.error = "StorageUnavailable"

\* C2: a list request never answers with an error; with the connection unset,
\* the store operation failing, the collection empty or no document matching,
\* it answers with the empty sequence.
C2_QueryNeverFails ==
  \A r \in DoneOf(Lists) :
    /\ request[r].resp.status = 200
    /\ request[r].resp.error = ""
    /\ (db = None \/ request[r].fault \/ AllMatching(request[r].op, request[r].req) = <<>>)
         => request[r].resp.body = <<>>

C2_Witness ==
  \E r \in DoneOf(Lists) :
    /\ db # None
    /\ request[r].fault
    /\ AllMatching(request[r].op, request[r].req) # <<>>
    /\ request[r].resp.status = 200
    /\ request[r].resp.body = <<>>

\* C3: a list request returns at most limit documents, each one a document of
\* its collection that matches the filter, and together the first matching
\* documents in insertion order: a prefix of all matches, min(limit, matches)
\* long when the store answers.
C3_QueryPrefix ==
  \A r \in DoneOf(Lists) :
    LET h == request[r]
        coll == store[CollectionOf(h.op)]
        all == AllMatching(h.op, h.req)
        got == h.resp.body
    IN  /\ Len(got) <= h.req.limit
        /\ \A i \in 1..Len(got) :
             /\ \E j \in 1..Len(coll) : got[i] = Shown(coll[j])
             /\ Matches(got[i], QueryFilter(h.op, h.req))
        /\ Len(got) <= Len(all)
        /\ \A i \in 1..Len(got) : got[i] = Shown(all[i])
        /\ StoreUp(r) => Len(got) = Min(h.req.limit, Len(all))

\* a non-matching first document is passed over and the limit cuts the rest
C3_Witness ==
  \E r \in DoneOf(Lists) :
    LET h == request[r]
        coll == store[CollectionOf(h.op)]
    IN  /\ Len(coll) >= 2
        /\ ~Matches(coll[1], QueryFilter(h.op, h.req))
        /\ DOMAIN QueryFilter(h.op, h.req) # {}
        /\ h.req.limit = 1
        /\ Len(h.resp.body) = 1
        /\ h.resp.body[1] = Shown(coll[2])

\* C4: once a create has succeeded and its record is the only document of its
\* collection, a list request whose filter matches the record (limit >= 1,
\* store answering) returns exactly one document: the record's fields with
\* their values as created, and one more field, _id, a non-empty string.
C4_RoundTrip ==
  \A r \in DoneOf(Lists) : \A e \in created :
    LET h == request[r]
        rec == RecordOf(e.op, e.req).value
    IN  (/\ CollectionOf(e.op) = CollectionOf(h.op)
         /\ Len(store[CollectionOf(h.op)]) = 1
         /\ Matches(rec, QueryFilter(h.op, h.req))
         /\ h.req.limit >= 1
         /\ StoreUp(r))
        => /\ Len(h.resp.body) = 1
           /\ DOMAIN h.resp.body[1] = (DOMAIN rec) \cup {"_id"}
           /\ Fields(h.resp.body[1]) = rec
           /\ IsIdString(h.resp.body[1]._id)
           /\ h.resp.body[1]._id = e.id

\* the spec's scenario: {bot_id: "bot1", type: "photo", price: 5} listed by bot1
C4_Witness ==
  \E r \in DoneOf({"list_media"}) : \E e \in created :
    /\ e.op = "create_media"
    /\ e.req.price = Some(5)
    /\ request[r].req.bot_id = Some("bot1")
    /\ Len(store["mediaitem"]) = 1
    /\ Len(request[r].resp.body) = 1
    /\ request[r].resp.body[1].price = Some(5)
    /\ request[r].resp.body[1].type = "photo"

\* C5: a create_media request whose record construction fails (type outside
\* photo, video, document, or a negative price) is answered with a 4xx status
\* and inserts nothing; price 0 with a valid type is accepted and stored.
C5_ConstructionFailureIsClientError ==
  \A r \in DoneOf({"create_media"}) :
    LET h == request[r] IN
    /\ (RequestModelOk(h.op, h.req) /\ ~RecordOf(h.op, h.req).ok) =>
         /\ h.resp.status \in 400..499
         /\ \A e \in created : e.req # h.req
    /\ (ValidPayload(h.op, h.req) /\ h.req.price = Some(0) /\ StoreUp(r)) =>
         /\ Succeeded(r)
         /\ \E i \in 1..Len(store["mediaitem"]) : store["mediaitem"][i].price = Some(0)

\* C6: send_message answers with the stored message's identifier and a non-null
\* delivery identifier, the message stored as outbound under the request's
\* conversation_id; list_messages returns only messages of the conversation
\* asked for; and after a conversation was created and one message sent with
\* its identifier, list_messages for it (limit >= 1, store answering) returns
\* exactly that message, outbound, with the same non-null delivery identifier.
C6_SendThenList ==
  /\ \A r \in DoneOf({"send_message"}) :
       LET h == request[r]
           mine == {i \in 1..Len(store["message"]) :
                      Shown(store["message"][i])._id = h.resp.body.id}
       IN  Succeeded(r) =>
             /\ h.resp.body.telegram_message_id # None
             /\ IsIdString(h.resp.body.id)
             /\ Cardinality(mine) = 1
             /\ \A i \in mine :
                  /\ store["message"][i].direction = "outbound"
                  /\ store["message"][i].telegram_message_id = h.resp.body.telegram_message_id
                  /\ Some(store["message"][i].conversation_id) = h.req.conversation_id
  /\ \A r \in DoneOf({"list_messages"}) :
       LET h == request[r]
           sent == {e \in created : /\ e.op = "send_message"
                                    /\ e.req.conversation_id = Some(h.req.conversation_id)}
       IN  /\ \A i \in 1..Len(h.resp.body) :
                h.resp.body[i].conversation_id = h.req.conversation_id
           /\ \A c \in created :
                (/\ c.op = "create_conversation"
                 /\ c.id.value = h.req.conversation_id
                 /\ Cardinality(sent) = 1
                 /\ h.req.limit >= 1
                 /\ StoreUp(r))
                => /\ Len(h.resp.body) = 1
                   /\ h.resp.body[1].direction = "outbound"
                   /\ h.resp.body[1].telegram_message_id # None
                   /\ \A e \in sent : h.resp.body[1]._id = e.id

C6_Witness ==
  \E r \in DoneOf({"list_messages"}) : \E c \in created : \E e \in created :
    /\ c.op = "create_conversation"
    /\ e.op = "send_message"
    /\ c.id.value = request[r].req.conversation_id
    /\ e.req.conversation_id = Some(c.id.value)
    /\ Len(request[r].resp.body) = 1
    /\ request[r].resp.body[1].telegram_message_id = Some(DEMO_TELEGRAM_MESSAGE_ID)

IsPrefix(s, t) == Len(s) <= Len(t) /\ SubSeq(t, 1, Len(s)) = s

\* the step is request r's store round trip, and it is a create that succeeded
CreateStored(r) ==
  /\ request[r].pc # "called"
  /\ request'[r].op \in Creates
  /\ request'[r].pc = "called" \/ request'[r].resp.status = 200

C7_Step ==
  /\ \A c \in Collections : IsPrefix(store[c], store'[c])
  /\ \A r \in Requests :
       request'[r] # request[r] =>
         IF CreateStored(r)
         THEN LET own == CollectionOf(request'[r].op) IN
              /\ Len(store'[own]) = Len(store[own]) + 1
              /\ \A c \in Collections \ {own} : store'[c] = store[c]
         ELSE store' = store

\* C7: the store is append-only.  In every step each collection keeps the
\* documents it had, unchanged (identifier and every field) and in place; a
\* create that succeeds adds one document at the end of its own collection and
\* changes no other collection; any other request changes no collection.
C7_AppendOnly == [][C7_Step]_vars

\* a query answered after two creates into one collection
C7_Witness ==
  \E r \in DoneOf(Lists) : \E c \in Collections :
    /\ Len(store[c]) = 2
    /\ Cardinality(created) = 2

\* C8: every identifier handed to a caller is a string: the id of every
\* successful create and the _id of every listed document; and a listed
\* document carries the very id string its create returned.
C8_IdsAreStrings ==
  /\ \A e \in created : IsIdString(e.id)
  /\ \A r \in DoneOf(Creates) : Succeeded(r) => IsIdString(request[r].resp.body.id)
  /\ \A r \in DoneOf(Lists) :
       \A i \in 1..Len(request[r].resp.body) :
         LET item == request[r].resp.body[i] IN
         /\ IsIdString(item._id)
         /\ \E e \in created :
              /\ CollectionOf(e.op) = CollectionOf(request[r].op)
              /\ e.id = item._id
              /\ RecordOf(e.op, e.req).value = Fields(item)

C8_Witness ==
  \E r \in DoneOf({"list_bots", "list_conversations"}) : \E e \in created :
    /\ Len(request[r].resp.body) >= 1
    /\ request[r].resp.body[1]._id = e.id
    /\ e.id = [type |-> "str", value |-> ObjectIdHex(1)]

\* what degraded mode is: the state of things while the handle is unset
C9_Degraded ==
  db = None =>
    /\ StoreEmpty
    /\ created = {}
    /\ \A r \in DoneOf(Creates) : request[r].resp.status # 200
    /\ \A r \in DoneOf(Lists) : Succeeded(r) /\ request[r].resp.body = <<>>
    /\ \A r \in DoneOf({"test_database"}) :
         /\ Succeeded(r)
         /\ request[r].resp.body.database = "Available but not initialized"
         /\ request[r].resp.body.collections = <<>>
    /\ ENABLED (\E q \in BotQueries : list_bots(q, FALSE))
    /\ ENABLED (\E body \in BotBodies : create_bot(body, FALSE))
    /\ ENABLED test_database(FALSE)

\* C9: the connection handle is what process start made of the two
\* configuration values (unset when either is absent) and no request changes
\* it; while it is unset every create fails and stores nothing, every list
\* request answers with the empty sequence, the diagnostics endpoint reports
\* it, and requests go on being served.
C9_HandleSetOnce ==
  /\ [](db = Connect(env))
  /\ [](env.DATABASE_URL = None \/ env.DATABASE_NAME = None => db = None)
  /\ [][db' = db /\ env' = env]_vars
  /\ []C9_Degraded

\* the name is absent, a create has failed and a later list came back empty
C9_Witness ==
  /\ env.DATABASE_NAME = None
  /\ env.DATABASE_URL # None
  /\ db = None
  /\ \E r \in DoneOf(Lists) : request[r].resp.body = <<>>

\* C10: with requests overlapping in any way, every create answered with
\* success has exactly one document in its collection, holding its record;
\* no two successful creates share an identifier; the store holds no document
\* beyond those of successful creates; and every list response is the query's
\* result on the collection as it stood at some moment (the store only
\* grows, so: on some prefix of the collection), as in a one-at-a-time order.
C10_Atomic ==
  /\ \A e \in created :
       LET coll == store[CollectionOf(e.op)]
           mine == {i \in 1..Len(coll) : Shown(coll[i])._id = e.id}
       IN  /\ Cardinality(mine) = 1
           /\ \A i \in mine : Fields(coll[i]) = RecordOf(e.op, e.req).value
  /\ \A e1 \in created : \A e2 \in created : e1.r # e2.r => e1.id # e2.id
  /\ \A c \in Collections :
       Len(store[c]) =
         Cardinality({r \in Requests :
                        /\ request[r].op \in Creates
                        /\ CollectionOf(request[r].op) = c
                        /\ \/ request[r].pc = "called"
                           \/ request[r].pc = "done" /\ Succeeded(r)})
  /\ \A r \in DoneOf(Lists) :
       LET h == request[r]
           coll == store[CollectionOf(h.op)]
       IN  StoreUp(r) =>
             \E n \in 0..Len(coll) :
               LET then == SelectSeq(SubSeq(coll, 1, n),
                                     LAMBDA d : Matches(d, QueryFilter(h.op, h.req)))
               IN  /\ Len(h.resp.body) = Min(h.req.limit, Len(then))
                   /\ \A i \in 1..Len(h.resp.body) : h.resp.body[i] = Shown(then[i])

\* two creates answered while a list request that began before them was
\* still in its handler: its response is older than the store
C10_Witness ==
  /\ Cardinality(created) = 2
  /\ \E r \in DoneOf(Lists) :
       /\ StoreUp(r)
       /\ Len(request[r].resp.body) < Len(AllMatching(request[r].op, request[r].req))

====
